---- MODULE Spec2Model ----
(***************************************************************************)
(* Model of the frpc Windows service supervisor (src/src/service.rs) and   *)
(* of the process handle it supervises (src/src/frpc.rs).                  *)
(*                                                                         *)
(* One control thread executes run_service; the service control manager    *)
(* calls the registered event handler on its own thread; supervised        *)
(* processes terminate on their own.  File names are sequences of          *)
(* characters so that discovery parses them the way the code does.         *)
(***************************************************************************)
EXTENDS Integers, Sequences, FiniteSets, TLC

\* ------------------------------------------------------------------ bounds

\* Largest value a restart counter is allowed to reach in the model.
MaxCount == 5

\* Largest number of unread messages in the shutdown channel.
MaxSignals == 2

\* Largest number of captured output lines kept in the log.
MaxLines == 1

\* ------------------------------------------------------- program constants

MAX_RESTART_ATTEMPTS == 3

\* ------------------------------------------------------------- file names

FRPC_AT == <<"f", "r", "p", "c", "@">>
DOT_EXE == <<".", "e", "x", "e">>
DOT_TOML == <<".", "t", "o", "m", "l">>
N_frpc == <<"f", "r", "p", "c">>
N_default == <<"d", "e", "f", "a", "u", "l", "t">>
N_a == <<"a">>

\* The files a service directory of the model may hold, in the order of one
\* directory listing.
FileList ==
    << N_frpc \o DOT_EXE,
       N_frpc \o DOT_TOML,
       FRPC_AT \o N_a \o DOT_EXE,
       N_a \o DOT_TOML,
       FRPC_AT \o N_default \o DOT_EXE,
       N_default \o DOT_TOML >>

Range(s) == {s[k] : k \in 1..Len(s)}

Files == Range(FileList)

Reverse(s) == [k \in 1..Len(s) |-> s[Len(s) + 1 - k]]

RECURSIVE Keep(_, _)
\* the entries of the listing s that are in the directory D, in s's order
Keep(s, D) ==
    IF s = <<>> THEN <<>>
    ELSE (IF Head(s) \in D THEN <<Head(s)>> ELSE <<>>) \o Keep(Tail(s), D)

\* str::starts_with / str::ends_with
StartsWith(s, p) == Len(s) >= Len(p) /\ SubSeq(s, 1, Len(p)) = p
EndsWith(s, p) == Len(s) >= Len(p) /\ SubSeq(s, Len(s) - Len(p) + 1, Len(s)) = p

\* Path::exists for a file of the service directory
Exists(ls, f) == f \in Range(ls)

\* ---------------------------------------------------------------- state

VARIABLES
    listing,          \* the service directory, as read_dir lists it
    pc,               \* position of the control thread in run_service
    instances,        \* instance_configs: what discovery returned
    j,                \* index of the initial launch loop
    frpc_processes,   \* Vec<FrpcProcess>
    restart_attempts, \* HashMap<String, u32>
    i,                \* index of the polling loop
    shutdown_q,       \* unread messages of the shutdown channel
    reports,          \* statuses delivered to the service manager
    result,           \* what run_service returned
    handler_result,   \* what the event handler answered last
    relaunches,       \* per slot: FrpcProcess::start calls made by the loop
    abandoned,        \* slots whose restart budget was found exhausted
    last_event,       \* the control event the handler was called with last
    exit_seen,        \* slots whose present handle has answered a poll with Exited
    live,             \* per slot: live processes among those spawned for it
    log,              \* the lines the capture threads have handed to the log
    early_stop        \* a stop request was delivered before the loop started

vars == << listing, pc, instances, j, frpc_processes, restart_attempts, i,
           shutdown_q, reports, result, handler_result, relaunches, abandoned,
           last_event, exit_seen, live, log, early_stop >>


\* ------------------------------------------------------------ discovery

Instance(id, exe, conf) == [identifier |-> id, exe_path |-> exe, config_path |-> conf]

\* service.rs 42-46: the default instance frpc.exe + frpc.toml
DefaultInstances(ls) ==
    IF Exists(ls, N_frpc \o DOT_EXE) /\ Exists(ls, N_frpc \o DOT_TOML)
    THEN << Instance(N_default, N_frpc \o DOT_EXE, N_frpc \o DOT_TOML) >>
    ELSE << >>

\* service.rs 55: the text between "frpc@" and ".exe"
NamePart(file_name) ==
    SubSeq(file_name, Len(FRPC_AT) + 1, Len(file_name) - Len(DOT_EXE))

\* the configuration file not looked for
NamedInstance_NoConfigCheck(ls, file_name) ==
    IF StartsWith(file_name, FRPC_AT) /\ EndsWith(file_name, DOT_EXE)
    THEN LET name_part == SubSeq(file_name, Len(FRPC_AT) + 1,
                                 Len(file_name) - Len(DOT_EXE))
         IN  IF name_part # << >>
             THEN << [identifier |-> name_part, exe_path |-> file_name,
                      config_path |-> name_part \o DOT_TOML] >>
             ELSE << >>
    ELSE << >>

\* service.rs 53-64: what one directory entry adds to the instances
NamedInstance(ls, file_name) ==
    IF StartsWith(file_name, FRPC_AT) /\ EndsWith(file_name, DOT_EXE)
    THEN LET name_part == NamePart(file_name)
             config_file == name_part \o DOT_TOML
         IN  IF name_part # << >> /\ Exists(ls, config_file)
             THEN << Instance(name_part, file_name, config_file) >>
             ELSE << >>
    ELSE << >>

RECURSIVE NamedInstances(_, _)
\* service.rs 49-67: the loop over read_dir, entries taken in listing order
NamedInstances(ls, rest) ==
    IF rest = << >> THEN << >>
    ELSE NamedInstance(ls, Head(rest)) \o NamedInstances(ls, Tail(rest))

discover_frpc_instances(ls) == DefaultInstances(ls) \o NamedInstances(ls, ls)

\* ------------------------------------------------------- process handle

\* the two paths stored in each other's field
Handle_Swapped(id, exe, conf) ==
    [identifier |-> id, exe_path |-> conf, config_path |-> exe, child |-> "running"]

\* frpc.rs 74-79: the handle of a freshly spawned child
Handle(id, exe, conf) ==
    [identifier |-> id, exe_path |-> exe, config_path |-> conf, child |-> "running"]

\* frpc.rs 18-79: FrpcProcess::start.  Both files must exist; the spawn itself
\* succeeds or fails as the operating system decides.
StartOutcomes(ls, id, exe, conf) ==
    IF ~Exists(ls, exe) \/ ~Exists(ls, conf)
    THEN { [ok |-> FALSE] }
    ELSE { [ok |-> TRUE, process |-> Handle(id, exe, conf)], [ok |-> FALSE] }

\* a live child reported as exited
PollOutcomes_FalsePositive(process) == {"exited", "error"}

\* frpc.rs 92-104: FrpcProcess::check_status.  try_wait answers Some(status)
\* for a terminated child (again on every later call), None for a live one,
\* or fails.
PollOutcomes(process) ==
    (IF process.child = "exited" THEN {"exited"} ELSE {"running"}) \cup {"error"}

\* service.rs 135-136: *restart_attempts.entry(id).or_insert(0) += 1
Attempts(ra, id) == IF id \in DOMAIN ra THEN ra[id] ELSE 0

\* the map rebuilt with the one entry, the other counters lost
Bump_Fresh(ra, id) == [k \in {id} |-> Attempts(ra, id) + 1]

\* or_insert(1) with the increment left out
Bump_Insert(ra, id) ==
    [k \in DOMAIN ra \cup {id} |-> IF k = id /\ id \notin DOMAIN ra THEN 1 ELSE ra[k]]

Bump(ra, id) ==
    [k \in DOMAIN ra \cup {id} |-> IF k = id THEN Attempts(ra, id) + 1 ELSE ra[k]]

\* the comparison off by one: gives up at the limit
ExceedsBudget_AtLimit(attempts) == attempts >= MAX_RESTART_ATTEMPTS

\* the comparison off by one the other way: one relaunch too many
ExceedsBudget_Late(attempts) == attempts > MAX_RESTART_ATTEMPTS + 1

\* service.rs 138: *attempts > MAX_RESTART_ATTEMPTS
ExceedsBudget(attempts) == attempts > MAX_RESTART_ATTEMPTS

\* service.rs 191-210: the status record set_service_status hands over
StatusRecord(current_state) ==
    [ current_state |-> current_state,
      controls_accepted |-> IF current_state = "Running" THEN {"STOP", "SHUTDOWN"} ELSE {},
      exit_code |-> 0 ]

\* the loop never looks at the channel
ShutdownObserved_Never(q) == FALSE

\* service.rs 120-126: try_recv on the shutdown channel; the sender lives in
\* the registered handler, so the channel is never disconnected
ShutdownObserved(q) == q > 0

\* the emptiness test left out
NoProcessStarted_Never(ps) == FALSE

\* service.rs 107: frpc_processes.is_empty()
NoProcessStarted(ps) == Len(ps) = 0

\* service.rs 200-208: whether the service manager accepts a status call
ReportOutcomes == {TRUE, FALSE}

\* frpc.rs 83-89: FrpcProcess::stop.  kill and wait succeed, leaving the child
\* terminated and reaped, or one of them fails and the child is left as it is.
StopOutcomes(process) ==
    { [ok |-> TRUE, process |-> [process EXCEPT !.child = "exited"]],
      [ok |-> FALSE, process |-> process] }

NoAttempts == [k \in {} |-> 0]

Slots == 1..Len(frpc_processes)

\* ----------------------------------------------------------------- Init

\* A service directory holding any of the files, listed in one of two orders;
\* run_service has not started.
Init ==
    /\ \E D \in SUBSET Files : \E rev \in BOOLEAN :
          listing = Keep(IF rev THEN Reverse(FileList) ELSE FileList, D)
    /\ pc = "register"
    /\ instances = << >>
    /\ j = 1
    /\ frpc_processes = << >>
    /\ restart_attempts = NoAttempts
    /\ i = 1
    /\ shutdown_q = 0
    /\ reports = << >>
    /\ result = "none"
    /\ handler_result = "none"
    /\ relaunches = << >>
    /\ abandoned = {}
    /\ last_event = "none"
    /\ exit_seen = {}
    /\ live = << >>
    /\ log = << >>
    /\ early_stop = FALSE

\* run_service returns Err(..) by `?` or by return Err
ReturnErr ==
    /\ pc' = "done"
    /\ result' = "err"

\* ------------------------------------------------------- control thread

\* service.rs 91-92: service_control_handler::register
Register ==
    /\ pc = "register"
    /\ \E ok \in BOOLEAN :
          IF ok THEN pc' = "start_pending" /\ result' = result ELSE ReturnErr
    /\ UNCHANGED << last_event, exit_seen, live, log, early_stop >>
    /\ UNCHANGED << listing, instances, j, frpc_processes, restart_attempts, i,
                    shutdown_q, reports, handler_result, relaunches, abandoned >>

\* service.rs 94-95: set_service_status(StartPending)?
SetStartPending ==
    /\ pc = "start_pending"
    /\ \E ok \in ReportOutcomes :
          IF ok
          THEN /\ reports' = Append(reports, StatusRecord("StartPending"))
               /\ pc' = "discover"
               /\ result' = result
          ELSE /\ reports' = reports
               /\ ReturnErr
    /\ UNCHANGED << last_event, exit_seen, live, log, early_stop >>
    /\ UNCHANGED << listing, instances, j, frpc_processes, restart_attempts, i,
                    shutdown_q, handler_result, relaunches, abandoned >>

\* service.rs 98: discover_frpc_instances()?  current_exe or read_dir may fail.
Discover ==
    /\ pc = "discover"
    /\ \E ok \in BOOLEAN :
          IF ok
          THEN /\ instances' = discover_frpc_instances(listing)
               /\ j' = 1
               /\ pc' = "launch"
               /\ result' = result
          ELSE /\ UNCHANGED << instances, j >>
               /\ ReturnErr
    /\ UNCHANGED << last_event, exit_seen, live, log, early_stop >>
    /\ UNCHANGED << listing, frpc_processes, restart_attempts, i, shutdown_q,
                    reports, handler_result, relaunches, abandoned >>

\* a worker whose launch failed is kept, as a handle without a live child
Launch_KeepFailed ==
    /\ pc = "launch"
    /\ j <= Len(instances)
    /\ \E r \in StartOutcomes(listing, instances[j].identifier,
                              instances[j].exe_path, instances[j].config_path) :
          /\ frpc_processes' =
                Append(frpc_processes,
                       IF r.ok THEN r.process
                       ELSE [identifier |-> instances[j].identifier,
                             exe_path |-> instances[j].exe_path,
                             config_path |-> instances[j].config_path,
                             child |-> "exited"])
          /\ live' = Append(live, IF r.ok THEN 1 ELSE 0)
    /\ j' = j + 1
    /\ UNCHANGED << listing, pc, instances, restart_attempts, i, shutdown_q,
                    reports, result, handler_result, relaunches, abandoned,
                    last_event, exit_seen, log, early_stop >>

\* service.rs 100-105: one iteration of the initial launch loop
Launch ==
    /\ pc = "launch"
    /\ j <= Len(instances)
    /\ \E r \in StartOutcomes(listing, instances[j].identifier,
                              instances[j].exe_path, instances[j].config_path) :
          /\ frpc_processes' =
                IF r.ok THEN Append(frpc_processes, r.process) ELSE frpc_processes
          /\ live' = IF r.ok THEN Append(live, 1) ELSE live
    /\ j' = j + 1
    /\ UNCHANGED << last_event, exit_seen, log, early_stop >>
    /\ UNCHANGED << listing, pc, instances, restart_attempts, i, shutdown_q,
                    reports, result, handler_result, relaunches, abandoned >>

\* the return after the Stopped report left out
EnterRunning_NoReturn ==
    /\ pc = "launch"
    /\ j > Len(instances)
    /\ \E ok \in ReportOutcomes :
          IF ok
          THEN /\ reports' =
                    Append(IF NoProcessStarted(frpc_processes)
                           THEN Append(reports, StatusRecord("Stopped"))
                           ELSE reports,
                           StatusRecord("Running"))
               /\ restart_attempts' = NoAttempts
               /\ relaunches' = [s \in Slots |-> 0]
               /\ pc' = "loop_check"
               /\ result' = result
          ELSE /\ UNCHANGED << reports, restart_attempts, relaunches >>
               /\ ReturnErr
    /\ UNCHANGED << listing, instances, j, frpc_processes, i, shutdown_q,
                    handler_result, abandoned, last_event, exit_seen, live,
                    log, early_stop >>

\* service.rs 107-116: refuse to run with nothing started, else report Running
\* and create the empty restart map
EnterRunning ==
    /\ pc = "launch"
    /\ j > Len(instances)
    /\ IF NoProcessStarted(frpc_processes)
       THEN /\ \E ok \in ReportOutcomes :
                  reports' = IF ok THEN Append(reports, StatusRecord("Stopped"))
                             ELSE reports
            /\ ReturnErr
            /\ UNCHANGED << restart_attempts, relaunches >>
       ELSE \E ok \in ReportOutcomes :
               IF ok
               THEN /\ reports' = Append(reports, StatusRecord("Running"))
                    /\ restart_attempts' = NoAttempts
                    /\ relaunches' = [s \in Slots |-> 0]
                    /\ pc' = "loop_check"
                    /\ result' = result
               ELSE /\ UNCHANGED << reports, restart_attempts, relaunches >>
                    /\ ReturnErr
    /\ UNCHANGED << last_event, exit_seen, live, log, early_stop >>
    /\ UNCHANGED << listing, instances, j, frpc_processes, i, shutdown_q,
                    handler_result, abandoned >>

\* service.rs 118-126: the head of a tick
LoopCheck ==
    /\ pc = "loop_check"
    /\ IF ShutdownObserved(shutdown_q)
       THEN /\ shutdown_q' = shutdown_q - 1
            /\ pc' = "stopping"
       ELSE /\ shutdown_q' = shutdown_q
            /\ pc' = "poll"
    /\ i' = 1
    /\ UNCHANGED << last_event, exit_seen, live, log, early_stop >>
    /\ UNCHANGED << listing, instances, j, frpc_processes, restart_attempts,
                    reports, result, handler_result, relaunches, abandoned >>

\* service.rs 129-173: one iteration of the polling loop, for slot i
Poll ==
    /\ pc = "poll"
    /\ i <= Len(frpc_processes)
    /\ \E out \in PollOutcomes(frpc_processes[i]) :
          \/ /\ out = "error"
             /\ ReturnErr
             /\ UNCHANGED << frpc_processes, restart_attempts, i, relaunches,
                             abandoned, exit_seen, live >>
          \/ /\ out = "running"
             /\ i' = i + 1
             /\ UNCHANGED << pc, result, frpc_processes, restart_attempts,
                             relaunches, abandoned, exit_seen, live >>
          \/ /\ out = "exited"
             /\ LET process == frpc_processes[i]
                    identifier == process.identifier
                    counted == Bump(restart_attempts, identifier)
                    attempts == counted[identifier]
                IN  /\ attempts <= MaxCount
                    /\ restart_attempts' = counted
                    /\ IF ExceedsBudget(attempts)
                       THEN /\ abandoned' = abandoned \cup {i}
                            /\ exit_seen' = exit_seen \cup {i}
                            /\ UNCHANGED << frpc_processes, relaunches, live >>
                       ELSE /\ \E r \in StartOutcomes(listing, process.identifier,
                                           process.exe_path, process.config_path) :
                                  IF r.ok
                                  THEN /\ frpc_processes' =
                                            [frpc_processes EXCEPT ![i] = r.process]
                                       /\ exit_seen' = exit_seen \ {i}
                                       /\ live' = [live EXCEPT ![i] = @ + 1]
                                  ELSE /\ frpc_processes' = frpc_processes
                                       /\ exit_seen' = exit_seen \cup {i}
                                       /\ live' = live
                            /\ relaunches' = [relaunches EXCEPT ![i] = @ + 1]
                            /\ abandoned' = abandoned
             /\ i' = i + 1
             /\ UNCHANGED << pc, result >>
    /\ UNCHANGED << last_event, log, early_stop >>
    /\ UNCHANGED << listing, instances, j, shutdown_q, reports, handler_result >>

\* the loop left at the end of a tick that found every worker abandoned
Sleep_LeaveWhenAllAbandoned ==
    /\ pc = "poll"
    /\ i > Len(frpc_processes)
    /\ pc' = IF abandoned = Slots THEN "stopping" ELSE "loop_check"
    /\ i' = IF abandoned = Slots THEN 1 ELSE i
    /\ UNCHANGED << listing, instances, j, frpc_processes, restart_attempts,
                    shutdown_q, reports, result, handler_result, relaunches,
                    abandoned, last_event, exit_seen, live, log, early_stop >>

\* service.rs 175: the end of a tick
Sleep ==
    /\ pc = "poll"
    /\ i > Len(frpc_processes)
    /\ pc' = "loop_check"
    /\ UNCHANGED << last_event, exit_seen, live, log, early_stop >>
    /\ UNCHANGED << listing, instances, j, frpc_processes, restart_attempts, i,
                    shutdown_q, reports, result, handler_result, relaunches, abandoned >>

\* process.stop()? in the stop loop: the first failure returns
StopProcess_Propagate ==
    /\ pc = "stopping"
    /\ i <= Len(frpc_processes)
    /\ \E r \in StopOutcomes(frpc_processes[i]) :
          /\ frpc_processes' = [frpc_processes EXCEPT ![i] = r.process]
          /\ live' = IF r.ok /\ frpc_processes[i].child = "running"
                     THEN [live EXCEPT ![i] = @ - 1]
                     ELSE live
          /\ IF r.ok THEN UNCHANGED << pc, result >> ELSE ReturnErr
    /\ i' = i + 1
    /\ UNCHANGED << listing, instances, j, restart_attempts, shutdown_q, reports,
                    handler_result, relaunches, abandoned, last_event, exit_seen,
                    log, early_stop >>

\* service.rs 179-183: one iteration of the stop loop; an error is logged
StopProcess ==
    /\ pc = "stopping"
    /\ i <= Len(frpc_processes)
    /\ \E r \in StopOutcomes(frpc_processes[i]) :
          /\ frpc_processes' = [frpc_processes EXCEPT ![i] = r.process]
          /\ live' = IF r.ok /\ frpc_processes[i].child = "running"
                     THEN [live EXCEPT ![i] = @ - 1]
                     ELSE live
    /\ i' = i + 1
    /\ UNCHANGED << last_event, exit_seen, log, early_stop >>
    /\ UNCHANGED << listing, pc, instances, j, restart_attempts, shutdown_q,
                    reports, result, handler_result, relaunches, abandoned >>

\* service.rs 185-188: set_service_status(Stopped)?; Ok(())
ReportStopped ==
    /\ pc = "stopping"
    /\ i > Len(frpc_processes)
    /\ \E ok \in ReportOutcomes :
          IF ok
          THEN /\ reports' = Append(reports, StatusRecord("Stopped"))
               /\ result' = "ok"
               /\ pc' = "done"
          ELSE /\ reports' = reports
               /\ ReturnErr
    /\ UNCHANGED << last_event, exit_seen, live, log, early_stop >>
    /\ UNCHANGED << listing, instances, j, frpc_processes, restart_attempts, i,
                    shutdown_q, handler_result, relaunches, abandoned >>

\* ---------------------------------------------------------- environment

ControlEvents == {"Stop", "Shutdown", "Pause"}

\* Shutdown left out of the match arm
StopRequested_StopOnly(control_event) == control_event = "Stop"

\* service.rs 82: ServiceControl::Stop | ServiceControl::Shutdown
StopRequested(control_event) == control_event \in {"Stop", "Shutdown"}

\* service.rs 94-116: run_service has registered the handler and has not
\* reached the loop
BeforeLoop(at) == at \in {"start_pending", "discover", "launch"}

\* a stop request that comes before the loop has started is answered and
\* dropped
ControlEvent_DroppedBeforeLoop(control_event) ==
    /\ pc \notin {"register", "done"}
    /\ IF StopRequested(control_event)
       THEN /\ shutdown_q < MaxSignals
            /\ shutdown_q' = IF BeforeLoop(pc) THEN shutdown_q ELSE shutdown_q + 1
            /\ handler_result' = "NoError"
       ELSE /\ shutdown_q' = shutdown_q
            /\ handler_result' = "NotImplemented"
    /\ last_event' = control_event
    /\ early_stop' = (early_stop \/ (StopRequested(control_event) /\ BeforeLoop(pc)))
    /\ UNCHANGED << listing, pc, instances, j, frpc_processes, restart_attempts,
                    i, reports, result, relaunches, abandoned, exit_seen, live, log >>

\* service.rs 80-89: the event handler, run on the service manager's thread
\* while run_service is between registration and return
ControlEvent(control_event) ==
    /\ pc \notin {"register", "done"}
    /\ IF StopRequested(control_event)
       THEN /\ shutdown_q < MaxSignals
            /\ shutdown_q' = shutdown_q + 1
            /\ handler_result' = "NoError"
       ELSE /\ shutdown_q' = shutdown_q
            /\ handler_result' = "NotImplemented"
    /\ last_event' = control_event
    /\ early_stop' = (early_stop \/ (StopRequested(control_event) /\ BeforeLoop(pc)))
    /\ UNCHANGED << exit_seen, live, log >>
    /\ UNCHANGED << listing, pc, instances, j, frpc_processes, restart_attempts,
                    i, reports, result, relaunches, abandoned >>

\* a supervised process terminates on its own
ProcessExit(s) ==
    /\ pc \in {"launch", "loop_check", "poll", "stopping"}
    /\ s \in Slots
    /\ frpc_processes[s].child = "running"
    /\ frpc_processes' = [frpc_processes EXCEPT ![s].child = "exited"]
    /\ live' = [live EXCEPT ![s] = @ - 1]
    /\ UNCHANGED << last_event, exit_seen, log, early_stop >>
    /\ UNCHANGED << listing, pc, instances, j, restart_attempts, i, shutdown_q,
                    reports, result, handler_result, relaunches, abandoned >>

Control ==
    \/ Register
    \/ SetStartPending
    \/ Discover
    \/ Launch
    \/ EnterRunning
    \/ LoopCheck
    \/ Poll
    \/ Sleep
    \/ StopProcess
    \/ ReportStopped

Next ==
    \/ Control
    \/ \E control_event \in ControlEvents : ControlEvent(control_event)
    \/ \E s \in Slots : ProcessExit(s)

Spec == Init /\ [][Next]_vars

\* service.rs 118-188: the control thread is a running thread, so a step of
\* run_service that can be taken is taken in the end; the handler and the
\* supervised processes act when they please
SpecLive == Spec /\ WF_vars(Control)

\* ------------------------------------------- discovery on its own

N_alpha == <<"a", "l", "p", "h", "a">>
N_beta == <<"b", "e", "t", "a">>

\* the names a named instance may carry in the discovery runs
DiscoveryNames == {N_alpha, N_beta, N_default}

\* The files of the discovery runs, in the order of one directory listing.
DiscoveryFileList ==
    << N_frpc \o DOT_EXE,
       N_frpc \o DOT_TOML,
       FRPC_AT \o N_alpha \o DOT_EXE,
       N_alpha \o DOT_TOML,
       FRPC_AT \o N_beta \o DOT_EXE,
       N_beta \o DOT_TOML,
       FRPC_AT \o N_default \o DOT_EXE,
       N_default \o DOT_TOML,
       FRPC_AT \o DOT_EXE,
       DOT_TOML >>

\* run_service has reported StartPending and is about to call
\* discover_frpc_instances on a directory holding any of these files.
InitDiscovery ==
    /\ \E D \in SUBSET Range(DiscoveryFileList) : \E rev \in BOOLEAN :
          listing = Keep(IF rev THEN Reverse(DiscoveryFileList)
                         ELSE DiscoveryFileList, D)
    /\ pc = "discover"
    /\ instances = << >>
    /\ j = 1
    /\ frpc_processes = << >>
    /\ restart_attempts = NoAttempts
    /\ i = 1
    /\ shutdown_q = 0
    /\ reports = << StatusRecord("StartPending") >>
    /\ result = "none"
    /\ handler_result = "none"
    /\ relaunches = << >>
    /\ abandoned = {}
    /\ last_event = "none"
    /\ exit_seen = {}
    /\ live = << >>
    /\ log = << >>
    /\ early_stop = FALSE

NextDiscovery == Discover

SpecDiscovery == InitDiscovery /\ [][NextDiscovery]_vars

\* ------------------------------------ the output capture threads

Streams == {"stdout", "stderr"}

\* the thread counts the end of its stream as a restart of its worker
CaptureLine_CountsRestart(s, stream) ==
    /\ s \in Slots
    /\ Len(log) < MaxLines
    /\ log' = Append(log, [identifier |-> frpc_processes[s].identifier,
                           stream |-> stream])
    /\ restart_attempts' = Bump(restart_attempts, frpc_processes[s].identifier)
    /\ UNCHANGED << listing, pc, instances, j, frpc_processes, i, shutdown_q,
                    reports, result, handler_result, relaunches, abandoned,
                    last_event, exit_seen, live, early_stop >>

\* frpc.rs 45-72: one iteration of `for line in reader.lines()` in a capture
\* thread of a process started for slot s: the line is cleaned and logged
\* under the identifier the thread was given.  The thread owns its stream and
\* its copy of the identifier and nothing else; it reads until the stream ends,
\* which may be after the process has exited.
CaptureLine(s, stream) ==
    /\ s \in Slots
    /\ Len(log) < MaxLines
    /\ log' = Append(log, [identifier |-> frpc_processes[s].identifier,
                           stream |-> stream])
    /\ UNCHANGED << listing, pc, instances, j, frpc_processes, restart_attempts,
                    i, shutdown_q, reports, result, handler_result, relaunches,
                    abandoned, last_event, exit_seen, live, early_stop >>

\* The files of the runs with capture threads, in the order of one directory
\* listing: the default instance and the instance a.
ThreadsFileList == SubSeq(FileList, 1, 4)

InitThreads ==
    /\ Init
    /\ Range(listing) \subseteq Range(ThreadsFileList)

NextThreads ==
    \/ Next
    \/ \E s \in Slots : \E stream \in Streams : CaptureLine(s, stream)

SpecThreads == InitThreads /\ [][NextThreads]_vars

\* ------------------------------------------------------------- the claims

Identifier(s) == frpc_processes[s].identifier

Count(s) == Attempts(restart_attempts, Identifier(s))

\* the step is the polling iteration of slot s
PollStep(s) ==
    /\ pc = "poll"
    /\ i = s
    /\ s \in Slots
    /\ i' = i + 1 \/ pc' = "done"

\* the polling iteration of slot s found its process exited
Detected(s) == PollStep(s) /\ restart_attempts' # restart_attempts

\* the step called FrpcProcess::start for slot s
Relaunched(s) == relaunches' # relaunches /\ relaunches'[s] = relaunches[s] + 1

\* no two supervised workers carry the same identity
DistinctIdentities ==
    \A a, b \in Slots : a # b => Identifier(a) # Identifier(b)

LastReport == reports[Len(reports)]

Reported(state) == \E k \in 1..Len(reports) : reports[k].current_state = state

\* C1: a detection that brings the counter of the polled worker's identity to
\* 1..MAX_RESTART_ATTEMPTS makes a relaunch attempt and does not abandon the
\* worker; the detection that brings it to MAX_RESTART_ATTEMPTS + 1 makes no
\* relaunch attempt and abandons the worker; an abandoned worker's counter is
\* above MAX_RESTART_ATTEMPTS.
C1_AbandonAboveMax ==
    [][ \A s \in Slots :
          /\ Detected(s) =>
                LET n == Attempts(restart_attempts', Identifier(s))
                IN  /\ n = Count(s) + 1
                    /\ n <= MAX_RESTART_ATTEMPTS =>
                          Relaunched(s) /\ s \notin abandoned'
                    /\ n = MAX_RESTART_ATTEMPTS + 1 =>
                          /\ relaunches' = relaunches
                          /\ frpc_processes' = frpc_processes
                          /\ s \in abandoned'
          /\ s \in abandoned' =>
                Attempts(restart_attempts', Identifier(s)) > MAX_RESTART_ATTEMPTS
      ]_vars

\* a worker relaunched three times and abandoned by its fourth detected exit
C1_Witness ==
    \E s \in Slots :
        /\ s \in abandoned
        /\ Count(s) = MAX_RESTART_ATTEMPTS + 1
        /\ relaunches[s] = MAX_RESTART_ATTEMPTS

\* C2: in every step every restart counter stays the same or grows by exactly
\* one, and it grows only in the polling iteration of a worker of that identity
\* whose process has exited; no entry is removed or reset, also not by a
\* successful relaunch.
C2_CounterMonotone ==
    [][ /\ DOMAIN restart_attempts \subseteq DOMAIN restart_attempts'
        /\ \A id \in DOMAIN restart_attempts' :
              \/ Attempts(restart_attempts', id) = Attempts(restart_attempts, id)
              \/ /\ Attempts(restart_attempts', id) = Attempts(restart_attempts, id) + 1
                 /\ \E s \in Slots :
                       /\ PollStep(s)
                       /\ Identifier(s) = id
                       /\ frpc_processes[s].child = "exited"
      ]_vars

\* two workers with counters, one of them relaunched successfully and running
C2_Witness ==
    \E s, t \in Slots :
        /\ Identifier(s) # Identifier(t)
        /\ Count(s) = 2
        /\ Count(t) = 1
        /\ relaunches[s] = 2
        /\ frpc_processes[s].child = "running"

\* C3: once a worker is abandoned, its restart counter keeps its value in
\* every later step (stated for workers of pairwise distinct identities, each
\* with a counter of its own).
C3_FrozenAfterAbandon ==
    [][ DistinctIdentities =>
          \A s \in abandoned : Attempts(restart_attempts', Identifier(s)) = Count(s)
      ]_vars

\* C4: an abandoned worker is out of the supervised set: it is not polled
\* again, not relaunched and its slot is not given a new handle (stated for
\* workers of pairwise distinct identities).
C4_AbandonedNeverPolled ==
    [][ DistinctIdentities =>
          \A s \in abandoned :
              /\ ~PollStep(s)
              /\ relaunches'[s] = relaunches[s]
              /\ frpc_processes'[s] = frpc_processes[s] \/ pc = "stopping"
      ]_vars

\* C5: the step that abandons worker a leaves the handle and the restart
\* counter of every other worker b unchanged.
C5_AbandonLeavesOthers ==
    [][ \A a, b \in Slots :
          (a # b /\ Detected(a) /\ a \in abandoned') =>
              /\ frpc_processes'[b] = frpc_processes[b]
              /\ Attempts(restart_attempts', Identifier(b)) = Count(b)
      ]_vars

\* C6: no worker is relaunched more than MAX_RESTART_ATTEMPTS times, and the
\* step that abandons a worker leaves the supervisor in its polling loop with
\* no further status reported.
C6_RelaunchesBounded ==
    [][ /\ \A s \in DOMAIN relaunches' : relaunches'[s] <= MAX_RESTART_ATTEMPTS
        /\ \A s \in Slots :
              (Detected(s) /\ Count(s) >= MAX_RESTART_ATTEMPTS) =>
                  /\ pc' = "poll"
                  /\ reports' = reports
                  /\ relaunches' = relaunches
      ]_vars

\* a worker relaunched after exits 1-3 and abandoned, another one still live,
\* the service still reported as running
C6_Witness ==
    \E s, t \in Slots :
        /\ s # t
        /\ s \in abandoned
        /\ relaunches[s] = MAX_RESTART_ATTEMPTS
        /\ frpc_processes[t].child = "running"
        /\ pc = "loop_check"
        /\ LastReport.current_state = "Running"

\* C7: a tick that begins with the signal set goes to the stop loop without
\* polling or launching anything; polling starts only in a tick that found the
\* channel empty; an iteration of a tick in progress acts the same with the
\* signal set, and the tick ends only after its last iteration or by a poll
\* error.
C7_ShutdownCheckFirst ==
    [][ /\ (pc = "loop_check" /\ shutdown_q > 0 /\ pc' # pc) =>
              /\ pc' = "stopping"
              /\ frpc_processes' = frpc_processes
              /\ relaunches' = relaunches
              /\ restart_attempts' = restart_attempts
        /\ (pc = "loop_check" /\ pc' = "poll") => shutdown_q = 0
        /\ (pc = "poll" /\ pc' # pc) =>
              \/ pc' = "loop_check" /\ i > Len(frpc_processes)
              \/ pc' = "done" /\ result' = "err"
        /\ \A s \in Slots :
              (Detected(s) /\ shutdown_q > 0 /\ Count(s) < MAX_RESTART_ATTEMPTS) =>
                  Relaunched(s)
      ]_vars

\* the stop loop entered while an exited worker with budget left waits for
\* its relaunch
C7_Witness ==
    /\ pc = "stopping"
    /\ i = 1
    /\ \E s \in Slots :
          /\ frpc_processes[s].child = "exited"
          /\ Count(s) < MAX_RESTART_ATTEMPTS
          /\ relaunches[s] = 1

\* C8: with nothing started after the initial launches run_service returns an
\* error without reporting Running and without entering the loop; Running is
\* reported only with at least one started handle.
C8_NoWorkersFailFast ==
    /\ (pc \notin {"register", "start_pending", "discover", "launch"}
            /\ frpc_processes = << >>) =>
          /\ pc = "done"
          /\ result = "err"
          /\ ~Reported("Running")
          /\ restart_attempts = NoAttempts
    /\ Reported("Running") => Len(frpc_processes) >= 1

\* every initial launch failed: Stopped follows StartPending directly
C8_Witness ==
    /\ pc = "done"
    /\ Len(instances) = 2
    /\ frpc_processes = << >>
    /\ result = "err"
    /\ Len(reports) = 2
    /\ reports[1].current_state = "StartPending"
    /\ reports[2].current_state = "Stopped"

\* C9: a Stopped status reported on a fatal error carries a non-zero exit
\* code, one reported on a graceful stop carries exit code zero.
C9_ExitCodeTellsFailure ==
    (pc = "done" /\ reports # << >> /\ LastReport.current_state = "Stopped") =>
        /\ result = "err" => LastReport.exit_code # 0
        /\ result = "ok" => LastReport.exit_code = 0

\* C10: when run_service has returned after reporting StartPending, the last
\* status it reported is Stopped.
C10_LastReportStopped ==
    (pc = "done" /\ reports # << >>) => LastReport.current_state = "Stopped"

\* the step is the stop of slot s in the stop loop
StopStep(s) ==
    /\ pc = "stopping"
    /\ i = s
    /\ s \in Slots
    /\ i' = i + 1

ReportedStates == [k \in 1..Len(reports) |-> reports[k].current_state]

\* C11: an error met while polling or stopping one worker is contained: the
\* iteration for that worker never makes run_service return.
C11_WorkerErrorsContained ==
    [][ \A s \in Slots :
          /\ PollStep(s) => (pc' = "poll" /\ result' = result)
          /\ StopStep(s) => (pc' = "stopping" /\ result' = result)
      ]_vars

\* C12: the instances of one discovery pass carry pairwise distinct
\* identifiers.
C12_UniqueIdentities ==
    \A a, b \in 1..Len(instances) :
        a # b => instances[a].identifier # instances[b].identifier

\* C13: the stop loop calls stop on every held handle, whatever the earlier
\* stops answered, before run_service reports Stopped and returns: the loop
\* is left only after its last iteration.
C13_StopEveryHandle ==
    [][ /\ (pc = "stopping" /\ pc' # pc) => (pc' = "done" /\ i > Len(frpc_processes))
        /\ (pc = "stopping" /\ reports' # reports) =>
              /\ i > Len(frpc_processes)
              /\ reports' = Append(reports, StatusRecord("Stopped"))
        /\ \A s \in Slots :
              (pc = "stopping" /\ i = s /\ (pc' # pc \/ i' # i)) => StopStep(s)
      ]_vars

\* Stopped reported after the stop of the first of two handles failed and the
\* stop of the second succeeded
C13_Witness ==
    /\ pc = "done"
    /\ result = "ok"
    /\ Len(frpc_processes) = 2
    /\ i = 3
    /\ frpc_processes[1].child = "running"
    /\ frpc_processes[2].child = "exited"
    /\ relaunches[2] = 0
    /\ LastReport.current_state = "Stopped"

Emitted(instance) == \E k \in 1..Len(instances) : instances[k] = instance

UnnamedInstance ==
    [identifier |-> N_default, exe_path |-> N_frpc \o DOT_EXE,
     config_path |-> N_frpc \o DOT_TOML]

InstanceNamed(name) ==
    [identifier |-> name, exe_path |-> FRPC_AT \o name \o DOT_EXE,
     config_path |-> name \o DOT_TOML]

BetaScenario ==
    { N_frpc \o DOT_EXE, N_frpc \o DOT_TOML, FRPC_AT \o N_alpha \o DOT_EXE,
      N_alpha \o DOT_TOML, FRPC_AT \o N_beta \o DOT_EXE }

\* C14: after discovery the unnamed instance ("default", frpc.exe, frpc.toml)
\* is among the instances exactly if both its files exist, the instance of a
\* name (name, frpc@name.exe, name.toml) exactly if both its files exist, each
\* at most once and nothing else; with frpc.exe, frpc.toml, frpc@alpha.exe,
\* alpha.toml and frpc@beta.exe the instances are default and alpha.
C14_DiscoveryPairs ==
    pc = "launch" =>
        /\ Emitted(UnnamedInstance) <=>
              (Exists(listing, N_frpc \o DOT_EXE) /\ Exists(listing, N_frpc \o DOT_TOML))
        /\ \A name \in DiscoveryNames :
              Emitted(InstanceNamed(name)) <=>
                  /\ Exists(listing, FRPC_AT \o name \o DOT_EXE)
                  /\ Exists(listing, name \o DOT_TOML)
        /\ \A k \in 1..Len(instances) :
              /\ instances[k] \in {UnnamedInstance} \cup {InstanceNamed(n) : n \in DiscoveryNames}
              /\ \A m \in 1..Len(instances) : instances[m] = instances[k] => m = k
        /\ Range(listing) = BetaScenario =>
              /\ Len(instances) = 2
              /\ {instances[k].identifier : k \in 1..Len(instances)} = {N_default, N_alpha}

\* discovery done on the directory with the stray frpc@beta.exe
C14_Witness ==
    /\ pc = "launch"
    /\ Range(listing) = BetaScenario
    /\ Len(instances) = 2

\* the step is a call of the event handler
HandlerStep ==
    /\ UNCHANGED << pc, i, j >>
    /\ \/ last_event' # last_event
       \/ shutdown_q' # shutdown_q
       \/ handler_result' # handler_result

\* C15: a call of the handler with Stop or Shutdown sends one message and
\* answers NoError, a call with another event sends nothing and answers
\* NotImplemented, and neither changes anything else; however many messages
\* were sent, the supervisor enters the stop loop once and never leaves it for
\* the polling loop, stops each slot at most once and reports Stopped at most
\* once.
C15_StopEventsIdempotent ==
    [][ /\ HandlerStep =>
              /\ UNCHANGED << listing, instances, frpc_processes, restart_attempts,
                              reports, result, relaunches, abandoned, exit_seen, live >>
              /\ last_event' \in {"Stop", "Shutdown"} =>
                    (shutdown_q' = shutdown_q + 1 /\ handler_result' = "NoError")
              /\ last_event' \notin {"Stop", "Shutdown"} =>
                    (shutdown_q' = shutdown_q /\ handler_result' = "NotImplemented")
        /\ pc \in {"stopping", "done"} => pc' \in {"stopping", "done"}
        /\ pc = "stopping" => i' \in {i, i + 1}
        /\ Cardinality({k \in 1..Len(reports') :
                            reports'[k].current_state = "Stopped"}) <= 1
      ]_vars

\* a graceful stop after two stop events, the second one a Shutdown still
\* unread in the channel
C15_Witness ==
    /\ pc = "done"
    /\ result = "ok"
    /\ shutdown_q = 1
    /\ last_event = "Shutdown"
    /\ handler_result = "NoError"
    /\ ReportedStates = << "StartPending", "Running", "Stopped" >>

\* C16: the statuses reported so far are a prefix of StartPending, Running,
\* Stopped or of StartPending, Stopped.
C16_StatusSequence ==
    ReportedStates \in
        { << >>,
          << "StartPending" >>,
          << "StartPending", "Running" >>,
          << "StartPending", "Running", "Stopped" >>,
          << "StartPending", "Stopped" >> }

\* all three statuses reported
C16_Witness ==
    /\ pc = "done"
    /\ ReportedStates = << "StartPending", "Running", "Stopped" >>

\* C17: of the processes spawned for a slot at most one is alive, and it is
\* the one the slot's present handle owns.
C17_OneLiveProcess ==
    \A s \in Slots :
        /\ live[s] <= 1
        /\ live[s] = 1 <=> frpc_processes[s].child = "running"

\* a slot whose process was replaced twice, the replacement alive
C17_Witness ==
    \E s \in DOMAIN relaunches :
        /\ relaunches[s] = 2
        /\ live[s] = 1
        /\ frpc_processes[s].child = "running"

\* C18: a handle that has answered a poll with Exited is neither polled nor
\* stopped again.
C18_NoUseAfterExited ==
    [][ \A s \in exit_seen : ~PollStep(s) /\ ~StopStep(s) ]_vars

\* C19: from the Running report on no step changes the number of slots or the
\* identifier, executable path or configuration path stored in a slot, and
\* every slot holds the three values of a discovered instance.
C19_SlotsKeepLaunchParameters ==
    [][ /\ pc \in {"loop_check", "poll", "stopping"} =>
              /\ Len(frpc_processes') = Len(frpc_processes)
              /\ \A s \in Slots :
                    /\ frpc_processes'[s].identifier = frpc_processes[s].identifier
                    /\ frpc_processes'[s].exe_path = frpc_processes[s].exe_path
                    /\ frpc_processes'[s].config_path = frpc_processes[s].config_path
        /\ \A s \in 1..Len(frpc_processes') :
              Emitted([identifier |-> frpc_processes'[s].identifier,
                       exe_path |-> frpc_processes'[s].exe_path,
                       config_path |-> frpc_processes'[s].config_path])
      ]_vars

\* the first of two slots relaunched with success, the second untouched
C19_Witness ==
    /\ Len(frpc_processes) = 2
    /\ relaunches = << 1, 0 >>
    /\ frpc_processes[1].child = "running"
    /\ 1 \notin exit_seen
    /\ Identifier(1) # Identifier(2)

\* C20: a step makes at most one relaunch attempt for a slot, only in a
\* polling iteration that has just added one to the counter of its identity,
\* and the polling index only advances within a tick; so the relaunch
\* attempts of a slot never outnumber its counter.
C20_RelaunchesWithinCounter ==
    [][ /\ \A s \in DOMAIN relaunches' :
              relaunches'[s] <=
                  Attempts(restart_attempts', frpc_processes'[s].identifier)
        /\ \A s \in DOMAIN relaunches :
              relaunches'[s] # relaunches[s] =>
                  /\ Relaunched(s)
                  /\ Detected(s)
                  /\ Attempts(restart_attempts', Identifier(s)) = Count(s) + 1
        /\ (pc = "poll" /\ pc' = "poll") => i' \in {i, i + 1}
      ]_vars

\* the second relaunch of a slot has failed and the tick has moved on
C20_Witness ==
    \E s \in Slots :
        /\ pc = "poll"
        /\ i = s + 1
        /\ relaunches[s] = 2
        /\ Count(s) = 2
        /\ s \in exit_seen

\* the supervisor is in its loop, having reported Running
InRunning == pc \in {"loop_check", "poll"}

\* run_service has returned after its stop loop called stop on every slot
StoppedAll ==
    /\ pc = "done"
    /\ Reported("Running")
    /\ i > Len(frpc_processes)

\* C21: with the control thread scheduled fairly, a stop message sent while
\* the supervisor is in Running leads to run_service having called stop on
\* every held handle and having returned after the Stopped report (made, or
\* refused by the service manager).
C21_StopLeadsToStopped ==
    (InRunning /\ shutdown_q > 0) ~>
        (StoppedAll /\ (result = "ok" => LastReport.current_state = "Stopped"))
\* the step is one of the control thread: run_service has moved on
ControlStep == << pc, i, j >>' # << pc, i, j >>

\* the step is one of a capture thread
CaptureStep == log' # log

\* what a handle holds besides its child process
LaunchParameters(process) ==
    [identifier |-> process.identifier, exe_path |-> process.exe_path,
     config_path |-> process.config_path]

\* C22: a step that is not one of the control thread leaves the restart
\* counters, the number of handles, the launch parameters of every handle
\* and the child each handle owns as they are (the child may terminate on
\* its own, it is never replaced); a step of the handler changes only the
\* shutdown channel and the handler's answer, a step of a capture thread
\* only appends one line, tagged with a held worker's identifier, to the log.
C22_SingleWriter ==
    [][ /\ ~ControlStep =>
              /\ restart_attempts' = restart_attempts
              /\ Len(frpc_processes') = Len(frpc_processes)
              /\ \A s \in Slots :
                    /\ LaunchParameters(frpc_processes'[s]) =
                           LaunchParameters(frpc_processes[s])
                    /\ frpc_processes[s].child = "exited" =>
                           frpc_processes'[s].child = "exited"
              /\ UNCHANGED << instances, reports, result >>
        /\ HandlerStep =>
              UNCHANGED << listing, instances, frpc_processes, restart_attempts,
                           reports, result, relaunches, abandoned, exit_seen,
                           live, log >>
        /\ CaptureStep =>
              /\ UNCHANGED << listing, pc, instances, j, frpc_processes,
                              restart_attempts, i, shutdown_q, reports, result,
                              handler_result, relaunches, abandoned, last_event,
                              exit_seen, live, early_stop >>
              /\ \E s \in Slots : \E stream \in Streams :
                    log' = Append(log, [identifier |-> Identifier(s),
                                        stream |-> stream])
      ]_vars

\* in the middle of a tick: a line of standard error captured from a worker
\* that was relaunched and is alive, a stop message unread
C22_Witness ==
    /\ pc = "poll"
    /\ Len(frpc_processes) = 2
    /\ Len(log) = 1
    /\ log[1].stream = "stderr"
    /\ shutdown_q = 1
    /\ \E s \in DOMAIN relaunches :
          /\ relaunches[s] = 1
          /\ frpc_processes[s].child = "running"
          /\ log[1].identifier = Identifier(s)
\* C23: the loop is left only by the head of a tick that takes a stop message
\* from the channel, towards the stop loop, or by a polling iteration whose
\* poll failed, towards the error return; no status is reported inside the
\* loop, and the iteration that abandons a worker stays in the tick, also when
\* it leaves no worker that is not abandoned.
C23_LoopLeftOnlyBySignalOrPollError ==
    [][ /\ (InRunning /\ ~InRunning') =>
              \/ /\ pc = "loop_check"
                 /\ shutdown_q > 0
                 /\ shutdown_q' = shutdown_q - 1
                 /\ pc' = "stopping"
              \/ /\ PollStep(i)
                 /\ pc' = "done"
                 /\ result' = "err"
                 /\ UNCHANGED << frpc_processes, restart_attempts, abandoned >>
        /\ InRunning => reports' = reports
        /\ \A s \in Slots :
              (Detected(s) /\ s \in abandoned') => (pc' = "poll" /\ result' = result)
        /\ (InRunning /\ abandoned = Slots /\ shutdown_q = 0 /\ result' = result) =>
              InRunning'
      ]_vars

\* both workers abandoned and dead, one of them found exited again in a later
\* tick, the service still in its loop and reported as running
C23_Witness ==
    /\ pc = "loop_check"
    /\ Len(frpc_processes) = 2
    /\ abandoned = {1, 2}
    /\ live = << 0, 0 >>
    /\ Identifier(1) # Identifier(2)
    /\ Count(1) = MAX_RESTART_ATTEMPTS + 2
    /\ LastReport.current_state = "Running"
\* a handle for the instance is in the collection
Held(instance) ==
    \E s \in Slots : LaunchParameters(frpc_processes[s]) = instance

\* the instances whose initial launch has been made and has failed
FailedAtLaunch ==
    {k \in 1..Len(instances) : k < j /\ ~Held(instances[k])}

\* C24: an initial launch either adds a handle with a live child for its
\* instance or leaves the collection as it is, and touches no restart counter;
\* the loop is entered with no counter at all; an instance whose initial
\* launch failed stays out of the collection in every later step, no relaunch
\* is made with its parameters, and every counter belongs to a held handle.
C24_FailedLaunchStaysOut ==
    [][ /\ (pc = "launch" /\ j' = j + 1) =>
              /\ \/ frpc_processes' = frpc_processes
                 \/ /\ Len(frpc_processes') = Len(frpc_processes) + 1
                    /\ SubSeq(frpc_processes', 1, Len(frpc_processes)) = frpc_processes
                    /\ LaunchParameters(frpc_processes'[Len(frpc_processes')]) =
                           instances[j]
                    /\ frpc_processes'[Len(frpc_processes')].child = "running"
              /\ restart_attempts' = NoAttempts
              /\ relaunches' = << >>
        /\ (pc = "launch" /\ pc' = "loop_check") =>
              /\ restart_attempts' = NoAttempts
              /\ \A s \in DOMAIN relaunches' : relaunches'[s] = 0
        /\ \A k \in FailedAtLaunch :
              /\ k \in FailedAtLaunch'
              /\ \A s \in DOMAIN relaunches :
                    relaunches'[s] # relaunches[s] =>
                        LaunchParameters(frpc_processes[s]) # instances[k]
        /\ DOMAIN restart_attempts' \subseteq
               {frpc_processes'[s].identifier : s \in 1..Len(frpc_processes')}
      ]_vars

\* the initial launch of the first of two instances failed; the second one
\* was started, has exited and has been relaunched
C24_Witness ==
    /\ pc = "poll"
    /\ Len(instances) = 2
    /\ FailedAtLaunch = {1}
    /\ Len(frpc_processes) = 1
    /\ relaunches = << 1 >>
    /\ DOMAIN restart_attempts = {instances[2].identifier}
    /\ instances[1].identifier # instances[2].identifier
\* C25: after a stop request delivered before the loop started, its message
\* is in the channel until the head of the first tick takes it; the supervisor
\* is never in a polling iteration, no restart counter exists, no relaunch is
\* made and no worker is abandoned; and if Running was reported, run_service
\* returns only after its stop loop called stop on every started worker, with
\* the statuses StartPending, Running, Stopped reported unless the service
\* manager refused the last one.
C25_EarlyStopNotLost ==
    early_stop =>
        /\ (BeforeLoop(pc) \/ pc = "loop_check") => shutdown_q > 0
        /\ pc # "poll"
        /\ restart_attempts = NoAttempts
        /\ \A s \in DOMAIN relaunches : relaunches[s] = 0
        /\ abandoned = {}
        /\ exit_seen = {}
        /\ (pc = "done" /\ Reported("Running")) =>
              /\ StoppedAll
              /\ result = "ok" =>
                    ReportedStates = << "StartPending", "Running", "Stopped" >>
              /\ result = "err" => ReportedStates = << "StartPending", "Running" >>

\* a Shutdown delivered during the initial launches: two workers started,
\* Running reported, both stopped by the first tick, Stopped reported
C25_Witness ==
    /\ early_stop
    /\ pc = "done"
    /\ result = "ok"
    /\ last_event = "Shutdown"
    /\ shutdown_q = 0
    /\ Len(frpc_processes) = 2
    /\ live = << 0, 0 >>
    /\ ReportedStates = << "StartPending", "Running", "Stopped" >>
====
